---------------------------- MODULE Spec2Model ----------------------------
(***************************************************************************)
(* Model of the sherpa-backend chat service: the Chatbot engine of         *)
(* services/chatbot.py (a two-node LangGraph workflow over a ChatState)    *)
(* and the websocket message loop of app.py that drives the one            *)
(* module-level Chatbot instance.                                          *)
(*                                                                         *)
(* Texts are TLA+ strings; TLC evaluates Len, SubSeq and \o on strings, so *)
(* str.lower() and the `in` substring test are computed character by       *)
(* character.  Python's None for an optional value is the empty tuple and  *)
(* a present value x is <<x>>.                                             *)
(***************************************************************************)
EXTENDS Integers, Sequences, FiniteSets, TLC

(***************************************************************************)
(* Bounds of the model.                                                    *)
(***************************************************************************)
\* Inbound websocket messages handled in one behaviour of Spec.
MaxMsgs == 3

\* Inbound websocket messages handled in one behaviour of SpecShared.
MaxSharedMsgs == 2

\* Websocket connections (clients).
Sessions == {"ws1", "ws2"}

\* User texts a client sends as "content".
UserTexts ==
    { "Hello, I need some guidance.",
      "What locations do you have?" }

\* Texts the hosted model may answer with.  The system prompt tells it to ask
\* for "Location preferences", so a reply with a router keyword is ordinary.
ModelReplies ==
    { "Happy to help. What type of care do you need?",
      "Do you have any location preferences?" }

\* What one call of self.model.invoke does: it returns an AIMessage or raises.
ModelOutcomes ==
    [ok : {TRUE}, content : ModelReplies] \cup {[ok |-> FALSE, content |-> ""]}

\* Authenticated user ids a websocket token may resolve to.
UserIds == {"u1"}

None == << >>
Some(x) == <<x>>

(***************************************************************************)
(* services/chatbot.py: module constants.                                  *)
(***************************************************************************)
GRAND_VILLA_INFO ==
    [ name |-> "Grand Villa",
      description |-> "Grand Villa is a premier senior living community offering independent living, assisted living, and memory care services. We provide a luxurious lifestyle with resort-style amenities, chef-prepared meals, and engaging activities.",
      amenities |-> << "Resort-style swimming pool",
                       "Fitness center",
                       "Beauty salon and barbershop",
                       "Restaurant-style dining",
                       "Engaging activities and events",
                       "24/7 care and support" >>,
      care_types |-> << "Independent Living", "Assisted Living", "Memory Care" >>,
      locations |-> << "Florida", "Georgia", "Alabama" >> ]

system_prompt ==
    "You're a friendly guide helping people find living arrangements. Keep responses brief and conversational.\n\nInitial Message: \"I'd be happy to get you the information you need, but before I do, do you mind if I ask a few quick questions? That way, I can really understand what's important and make sure I'm helping in the best way possible.\"\n\nFollow-up Questions (one at a time):\n1. Type of care needed (independent living, assisted living, memory care)\n2. Location preferences\n3. Budget considerations\n4. Specific requirements\n\nGuidelines:\n- Always start with the initial message\n- Ask one question at a time\n- Be warm and friendly\n- Keep responses under 2-3 sentences\n- Acknowledge responses before asking next question"

\* The reply of every path that finds self.model unset.
NO_API_KEY_REPLY ==
    "I'm sorry, but I'm currently unable to process your request. API Key is not provided."

\* _chat's reply when self.model.invoke raises.
CHAT_ERROR_REPLY ==
    "I apologize, but I encountered an error. Could you please try rephrasing your message?"

\* get_response's reply when the last message is neither a message nor a list.
UNPROCESSED_REPLY ==
    "I apologize, but I couldn't process your message properly."

\* get_response's reply when anything in it raises.
GET_RESPONSE_ERROR_REPLY ==
    "I apologize, but I encountered an error. Could you please try again?"

community_keywords ==
    << "community", "communities", "place", "facility", "location", "where" >>

(***************************************************************************)
(* Python string operations.                                               *)
(***************************************************************************)
UpperLetters == "ABCDEFGHIJKLMNOPQRSTUVWXYZ"
LowerLetters == "abcdefghijklmnopqrstuvwxyz"

\* The characters of a string, as a tuple of one-character strings.
Chars(s) == [i \in 1..Len(s) |-> SubSeq(s, i, i)]

\* str.lower() of one character: the letters A-Z map to a-z.
LowerOf ==
    [c \in {SubSeq(UpperLetters, i, i) : i \in 1..Len(UpperLetters)} |->
        LET i == CHOOSE j \in 1..Len(UpperLetters) : SubSeq(UpperLetters, j, j) = c
        IN  SubSeq(LowerLetters, i, i)]

\* A lower() that leaves every character as it is.
LowerCharIdentity(c) == c

LowerChar(c) == IF c \in DOMAIN LowerOf THEN LowerOf[c] ELSE c

\* str.lower(), on the characters of the string.
Lower(cs) == [i \in 1..Len(cs) |-> LowerChar(cs[i])]

\* `needle in hay`, on the characters of the two strings.
Contains(hay, needle) ==
    \E i \in 1..(Len(hay) - Len(needle) + 1) :
        \A j \in 1..Len(needle) : hay[i + j - 1] = needle[j]

\* sep.join(items)
RECURSIVE Join(_, _)
Join(items, sep) ==
    IF Len(items) = 0 THEN ""
    ELSE IF Len(items) = 1 THEN items[1]
    ELSE items[1] \o sep \o Join(Tail(items), sep)

(***************************************************************************)
(* langchain messages: the class of the message and its content.           *)
(***************************************************************************)
SystemMessage(c) == [type |-> "system", content |-> c]
HumanMessage(c)  == [type |-> "human",  content |-> c]
AIMessage(c)     == [type |-> "ai",     content |-> c]

\* self.state as Chatbot.__init__ leaves it.
InitialState ==
    [ messages |-> << >>,
      next |-> None,
      context |-> [first_interaction |-> TRUE],
      community_info |-> None ]

\* Chatbot(): self.model is set only when ANTHROPIC_API_KEY is in the environment.
NewChatbot(api_key) ==
    [ model |-> api_key, state |-> InitialState ]

\* NoModel with the test dropped: the engine always takes itself to be configured.
NoModelNeverDetected(cb) == FALSE

\* `not self.model`
NoModel(cb) == ~ cb.model

(***************************************************************************)
(* The graph's nodes and its routing function.  A node returns the new     *)
(* state, the transcripts it passed to self.model.invoke, and whether it   *)
(* raised.                                                                 *)
(***************************************************************************)
\* lines 119-124: the content is not empty and, lower-cased, contains a keyword.
ContainsKeyword(message_content) ==
    /\ message_content # ""
    /\ \E lowered \in {Lower(Chars(message_content))} :
         \E k \in 1..Len(community_keywords) :
             Contains(lowered, Chars(community_keywords[k]))

\* User texts handed to the router: upper, lower and mixed case, keywords
\* inside longer words, near misses and the empty text.
ProbeTexts ==
    { "Where is it located?", "WHERE", "I like the colors", "",
      "Our Community", "two communities", "a nice PLACE", "Facility tour",
      "relocation", "nowhere", "comunity", "plac e" }

\* The texts a transcript of this model can end with.
TranscriptTexts ==
    UserTexts \cup ModelReplies \cup ProbeTexts
        \cup {NO_API_KEY_REPLY, CHAT_ERROR_REPLY}

\* ContainsKeyword of those texts, evaluated once.
KeywordTable == [t \in TranscriptTexts |-> ContainsKeyword(t)]

MentionsCommunity(message_content) ==
    IF message_content \in DOMAIN KeywordTable
    THEN KeywordTable[message_content]
    ELSE ContainsKeyword(message_content)

\* A router that looks for a keyword in every turn of the transcript.
ShouldRecommendCommunityAnyTurn(state) ==
    IF \E i \in 1..Len(state.messages) :
          /\ state.messages[i].type \in {"human", "ai"}
          /\ MentionsCommunity(state.messages[i].content)
    THEN "recommend"
    ELSE "continue_chat"

\* Chatbot._should_recommend_community
ShouldRecommendCommunity(state) ==
    LET messages == state.messages IN
    IF Len(messages) = 0 THEN "continue_chat"
    ELSE
      LET last_message == messages[Len(messages)]
          message_content ==
              IF last_message.type \in {"human", "ai"}
              THEN last_message.content ELSE ""
      IN  IF MentionsCommunity(message_content)
          THEN "recommend"
          ELSE "continue_chat"

\* The f-string of _recommend_community, with the source's line breaks and
\* indentation.
CommunityMessage ==
    "I'd like to tell you about Grand Villa, a premier senior living community. "
    \o GRAND_VILLA_INFO.description
    \o "\n\n        Key amenities include:\n        "
    \o Join(GRAND_VILLA_INFO.amenities, ", ")
    \o "\n\n        Would you like to know more about Grand Villa or would you prefer to explore other options?"

\* Chatbot._recommend_community
RecommendCommunity(cb, state, outcome) ==
    IF NoModel(cb)
    THEN [ state |-> [ messages |-> Append(state.messages, AIMessage(NO_API_KEY_REPLY)),
                       next |-> None,
                       context |-> state.context,
                       community_info |-> None ],
           invoked |-> << >>, raised |-> FALSE ]
    ELSE [ state |-> [ messages |-> Append(state.messages, AIMessage(CommunityMessage)),
                       next |-> None,
                       context |-> state.context,
                       community_info |-> Some(GRAND_VILLA_INFO) ],
           invoked |-> << >>, raised |-> FALSE ]

\* OnModelError answering with the apology alone, the earlier turns dropped.
OnModelErrorDropsTranscript(state, messages, context) ==
    [ state |-> [ messages |-> << AIMessage(CHAT_ERROR_REPLY) >>,
                  next |-> None,
                  context |-> context,
                  community_info |-> state.community_info ],
      invoked |-> <<messages>>, raised |-> FALSE ]

\* OnModelError without the handler: the exception leaves _chat.
OnModelErrorUncaught(state, messages, context) ==
    [ state |-> state, invoked |-> <<messages>>, raised |-> TRUE ]

\* Lines 183-190 of _chat: self.model.invoke(messages) raised.
OnModelError(state, messages, context) ==
    [ state |-> [ messages |-> Append(messages, AIMessage(CHAT_ERROR_REPLY)),
                  next |-> None,
                  context |-> context,
                  community_info |-> state.community_info ],
      invoked |-> <<messages>>, raised |-> FALSE ]

\* _chat without line 170: the flag in the context is never cleared.
ChatKeepsFirstFlag(cb, state, outcome) ==
    IF NoModel(cb)
    THEN [ state |-> [ messages |-> Append(state.messages, AIMessage(NO_API_KEY_REPLY)),
                       next |-> None,
                       context |-> state.context,
                       community_info |-> state.community_info ],
           invoked |-> << >>, raised |-> FALSE ]
    ELSE
      LET messages == IF state.context.first_interaction
                      THEN <<SystemMessage(system_prompt)>> \o state.messages
                      ELSE state.messages
      IN  IF outcome.ok
          THEN [ state |-> [ messages |-> Append(messages, AIMessage(outcome.content)),
                             next |-> None,
                             context |-> state.context,
                             community_info |-> state.community_info ],
                 invoked |-> <<messages>>, raised |-> FALSE ]
          ELSE OnModelError(state, messages, state.context)

\* Chatbot._chat
Chat(cb, state, outcome) ==
    IF NoModel(cb)
    THEN [ state |-> [ messages |-> Append(state.messages, AIMessage(NO_API_KEY_REPLY)),
                       next |-> None,
                       context |-> state.context,
                       community_info |-> state.community_info ],
           invoked |-> << >>, raised |-> FALSE ]
    ELSE
      LET first == state.context.first_interaction
          messages == IF first
                      THEN <<SystemMessage(system_prompt)>> \o state.messages
                      ELSE state.messages
          context == [state.context EXCEPT !.first_interaction = FALSE]
      IN  IF outcome.ok
          THEN [ state |-> [ messages |-> Append(messages, AIMessage(outcome.content)),
                             next |-> None,
                             context |-> context,
                             community_info |-> state.community_info ],
                 invoked |-> <<messages>>, raised |-> FALSE ]
          ELSE OnModelError(state, messages, context)

(***************************************************************************)
(* The workflow Chatbot.__init__ builds and compiles.                      *)
(***************************************************************************)
END == "__end__"

\* self.workflow.set_entry_point("chat")
EntryPoint == "chat"

\* add_node: the function a node runs.
RunNode(node, cb, state, outcome) ==
    IF node = "chat" THEN Chat(cb, state, outcome)
    ELSE RecommendCommunity(cb, state, outcome)

\* add_conditional_edges("chat", ...) and add_edge("recommend_community", END):
\* the node that follows `node`, given the state `node` returned.
NextNode(node, state) ==
    IF node = "chat"
    THEN IF ShouldRecommendCommunity(state) = "recommend"
         THEN "recommend_community"
         ELSE END
    ELSE END

\* self.app.invoke(state): run the nodes from `node` until END or a raise.
RECURSIVE Invoke(_, _, _, _, _)
Invoke(node, cb, state, outcome, invoked) ==
    IF node = END
    THEN [state |-> state, invoked |-> invoked, raised |-> FALSE]
    ELSE LET r == CHOOSE x \in {RunNode(node, cb, state, outcome)} : TRUE IN
         IF r.raised
         THEN [state |-> state, invoked |-> invoked \o r.invoked, raised |-> TRUE]
         ELSE Invoke(NextNode(node, r.state), cb, r.state, outcome,
                     invoked \o r.invoked)

\* Lines 205-215 of get_response: what it returns once self.app.invoke has
\* ended with `r` on the state `appended`.
Returned(cb, appended, r) ==
    IF r.raised
    THEN [ chatbot |-> [cb EXCEPT !.state = appended],
           ret |-> GET_RESPONSE_ERROR_REPLY,
           invoked |-> r.invoked ]
    ELSE LET last_message == r.state.messages[Len(r.state.messages)] IN
         [ chatbot |-> [cb EXCEPT !.state = r.state],
           ret |-> IF last_message.type \in {"human", "ai"}
                   THEN last_message.content
                   ELSE UNPROCESSED_REPLY,
           invoked |-> r.invoked ]

\* Lines 196-203 of get_response: the user turn is appended to self.state and
\* the graph is run on it.
Answer(cb, appended, outcome) ==
    Returned(cb, appended, Invoke(EntryPoint, cb, appended, outcome, << >>))

\* Chatbot.get_response: the chatbot after the call, the string returned, and
\* the transcripts passed to the model during the call.
GetResponse(cb, user_message, outcome) ==
    IF NoModel(cb)
    THEN [chatbot |-> cb, ret |-> NO_API_KEY_REPLY, invoked |-> << >>]
    ELSE Answer(cb,
                [cb.state EXCEPT !.messages = Append(@, HumanMessage(user_message))],
                outcome)

(***************************************************************************)
(* app.py: the websocket endpoint.  `chatbot` is the one Chatbot the       *)
(* module creates at import; every connection's handler uses it.           *)
(***************************************************************************)
\* The attributes class Chatbot defines (services/chatbot.py has no others).
ChatbotAttributes ==
    { "__init__", "_should_recommend_community", "_recommend_community",
      "_chat", "get_response", "model", "workflow", "app", "state" }

\* A JSON field of an inbound object: absent, a string, or a value that is
\* not a string (a number, null, a boolean).
Str(v) == Some([isstr |-> TRUE, val |-> v])
NonStr == Some([isstr |-> FALSE, val |-> "5"])

\* A decoded JSON object with the given "type" and "content" fields.
Object(type, content) == [json |-> "object", type |-> type, content |-> content]

\* What json.loads makes of the text websocket.receive_text() returned: it
\* raises, or returns a value that is not an object, or returns an object.
ChatMessages ==
    {Object(None, Str(t)) : t \in UserTexts}

Inbound ==
    { [json |-> "invalid", type |-> None, content |-> None],
      [json |-> "nonobject", type |-> None, content |-> None],
      Object(None, None),
      Object(Str("reset"), None),
      Object(NonStr, None),
      Object(None, NonStr),
      Object(Str("message"), Str("Hello, I need some guidance.")) }
    \cup ChatMessages

\* Outbound websocket.send_json payloads.
ResetConfirmed == [type |-> Some("reset_confirmed"), content |-> "Chat history has been reset."]
Reply(text) == [type |-> None, content |-> text]
PROCESSING_ERROR_REPLY == "Sorry, there was an error processing your message."
INVALID_FORMAT_REPLY == "Invalid message format"

\* What one pass of the `while True` body did.
Pass(cb, sent, calls, invoked, saves, resets, broke) ==
    [ chatbot |-> cb, sent |-> sent, get_response |-> calls, invoked |-> invoked,
      saves |-> saves, resets |-> resets, broke |-> broke ]

\* db.save_message(message_type, content, user_id) inside its own try/except:
\* the row, and whether the commit went through.
SaveMessage(db, message_type, content, current_user, ok) ==
    IF db
    THEN << [ message_type |-> message_type, content |-> content,
              user_id |-> current_user, stored |-> ok ] >>
    ELSE << >>

\* Replied with the bot row saved outside a try: a failed save reaches the
\* inner handler, which sends the generic error reply.
RepliedSaveUncaught(sess, content, r, saveUserOk, saveBotOk) ==
    Pass( r.chatbot,
          IF sess.db /\ ~ saveBotOk
          THEN <<Reply(PROCESSING_ERROR_REPLY)>> ELSE <<Reply(r.ret)>>,
          << [arg |-> content, ret |-> r.ret] >>,
          r.invoked,
          SaveMessage(sess.db, "user", content, sess.current_user, saveUserOk)
            \o SaveMessage(sess.db, "bot", r.ret, sess.current_user, saveBotOk),
          0, FALSE )

\* Lines 217-227: get_response has returned `r`; both saves and the reply.
Replied(sess, content, r, saveUserOk, saveBotOk) ==
    Pass( r.chatbot,
          <<Reply(r.ret)>>,
          << [arg |-> content, ret |-> r.ret] >>,
          r.invoked,
          SaveMessage(sess.db, "user", content, sess.current_user, saveUserOk)
            \o SaveMessage(sess.db, "bot", r.ret, sess.current_user, saveBotOk),
          0, FALSE )

\* Lines 206-227: the turn of a message that is not a reset command.
ChatTurn(cb, sess, message_data, outcome, saveUserOk, saveBotOk) ==
    IF message_data.content = None
    THEN \* message_data["content"] raises KeyError: swallowed around the save,
         \* caught by the inner handler at the get_response call.
         Pass(cb, <<Reply(PROCESSING_ERROR_REPLY)>>, << >>, << >>, << >>, 0, FALSE)
    ELSE Replied(sess, message_data.content[1].val,
                 GetResponse(cb, message_data.content[1].val, outcome),
                 saveUserOk, saveBotOk)

\* Chatbot.reset_history as the caller at app.py:202 expects it: class Chatbot
\* does not define it, so ProcessMessage never reaches this.
ResetHistory(cb) == [cb EXCEPT !.state = InitialState]

\* Lines 198-230: the inner try.
ProcessMessage(cb, sess, message_data, outcome, saveUserOk, saveBotOk) ==
    IF message_data.type = Str("reset")
    THEN IF "reset_history" \in ChatbotAttributes
         THEN Pass(ResetHistory(cb), <<ResetConfirmed>>, << >>, << >>, << >>, 1, FALSE)
         ELSE \* chatbot.reset_history raises AttributeError, caught at line 228
              Pass(cb, <<Reply(PROCESSING_ERROR_REPLY)>>, << >>, << >>, << >>, 0, FALSE)
    ELSE ChatTurn(cb, sess, message_data, outcome, saveUserOk, saveBotOk)

\* Lines 192-236: one pass of the message loop on the received text `data`.
LoopBody(cb, sess, data, outcome, saveUserOk, saveBotOk) ==
    IF data.json = "invalid"
    THEN \* json.JSONDecodeError
         Pass(cb, <<Reply(INVALID_FORMAT_REPLY)>>, << >>, << >>, << >>, 0, FALSE)
    ELSE IF data.json = "nonobject"
    THEN \* message_data.get: AttributeError, caught by `except Exception: break`
         Pass(cb, << >>, << >>, << >>, << >>, 0, TRUE)
    ELSE
      LET logged == IF data.content # None THEN data.content
                    ELSE IF data.type # None THEN data.type
                    ELSE Str("unknown")
      IN  IF ~ logged[1].isstr
          THEN \* [:50] on a value that is not a string raises TypeError: break
               Pass(cb, << >>, << >>, << >>, << >>, 0, TRUE)
          ELSE ProcessMessage(cb, sess, data, outcome, saveUserOk, saveBotOk)

(***************************************************************************)
(* State.                                                                  *)
(***************************************************************************)
VARIABLES
    chatbot,   \* app.py's module-level Chatbot: [model, state]
    ws,        \* per connection: conn, current_user, db, received
    last,      \* what the latest pass of a message loop did
    nmsgs,     \* inbound messages handled so far
    probe,     \* a ChatState handed to the router on its own
    verdict,   \* what the router returned for `probe`, once it has run
    email_configured,  \* EMAIL_USERNAME and EMAIL_PASSWORD are set
    users,     \* rows of table users, in insertion order
    codes,     \* rows of table email_verifications, in insertion order
    now,       \* datetime.utcnow(), in code lifetimes
    accepted,  \* for each row of `codes`, how often verify_code accepted it
    authReq    \* the latest request to an /auth endpoint and its response

chatVars == <<chatbot, ws, last, nmsgs>>
routerVars == <<probe, verdict>>
authVars == <<email_configured, users, codes, now, accepted, authReq>>
vars == <<chatVars, routerVars, authVars>>

NoPass ==
    [ session |-> "", data |-> [json |-> "", type |-> None, content |-> None],
      outcome |-> None, pre |-> InitialState,
      sent |-> << >>, get_response |-> << >>, invoked |-> << >>,
      saves |-> << >>, resets |-> 0, broke |-> FALSE ]

\* No router call outside a get_response call is under way.
RouterIdle ==
    /\ probe = InitialState
    /\ verdict = None

\* No request to an /auth endpoint yet.
NoRequest ==
    [ op |-> "", email |-> "", password |-> "", user_id |-> 0, code |-> "",
      status |-> 0, token |-> None, row |-> 0, at |-> 0 ]

\* Empty tables, no /auth request.
AuthIdle ==
    /\ email_configured = FALSE
    /\ users = << >>
    /\ codes = << >>
    /\ now = 0
    /\ accepted = << >>
    /\ authReq = NoRequest

Init ==
    /\ RouterIdle
    /\ AuthIdle
    /\ \E api_key \in BOOLEAN : chatbot = NewChatbot(api_key)
    /\ ws = [s \in Sessions |->
                [conn |-> "none", current_user |-> None, db |-> FALSE, received |-> 0]]
    /\ last = NoPass
    /\ nmsgs = 0

\* Lines 175-189: accept, resolve the optional token to a user, get the
\* database handle.  A token whose user lookup raises ends the endpoint.
\* Database.get_instance() returns the singleton that AuthService() made when
\* app.py was imported (line 21), so `db` is set in every running process.
Connect(s) ==
    /\ ws[s].conn = "none"
    /\ \E auth \in {"anonymous", "error"} \cup UserIds :
         ws' = [ws EXCEPT ![s] =
                  IF auth = "error"
                  THEN [@ EXCEPT !.conn = "closed"]
                  ELSE [ conn |-> "open",
                         current_user |-> IF auth \in UserIds THEN Some(auth) ELSE None,
                         db |-> TRUE,
                         received |-> 0 ]]
    /\ UNCHANGED <<chatbot, last, nmsgs, routerVars, authVars>>

\* Lines 191-236: one inbound message, handled to the end of the loop body.
Receive(s, max) ==
    /\ ws[s].conn = "open"
    /\ nmsgs < max
    /\ \E data \in Inbound, outcome \in ModelOutcomes,
          saveUserOk \in BOOLEAN, saveBotOk \in BOOLEAN :
       \E p \in {LoopBody(chatbot, ws[s], data, outcome, saveUserOk, saveBotOk)} :
         /\ chatbot' = p.chatbot
         /\ ws' = [ws EXCEPT ![s].received = @ + 1,
                             ![s].conn = IF p.broke THEN "closed" ELSE @]
         /\ last' = [ session |-> s, data |-> data,
                      outcome |-> IF p.invoked # << >> THEN Some(outcome) ELSE None,
                      pre |-> chatbot.state,
                      sent |-> p.sent, get_response |-> p.get_response,
                      invoked |-> p.invoked, saves |-> p.saves,
                      resets |-> p.resets, broke |-> p.broke ]
    /\ nmsgs' = nmsgs + 1
    /\ UNCHANGED <<routerVars, authVars>>

\* receive_text raises WebSocketDisconnect: the loop's `except Exception` breaks.
Disconnect(s) ==
    /\ ws[s].conn = "open"
    /\ ws' = [ws EXCEPT ![s].conn = "closed"]
    /\ UNCHANGED <<chatbot, last, nmsgs, routerVars, authVars>>

\* One client.
Next ==
    \/ Connect("ws1")
    \/ Receive("ws1", MaxMsgs)
    \/ Disconnect("ws1")

Spec == Init /\ [][Next]_vars

\* Several clients of the same process.
NextShared ==
    \E s \in Sessions :
        \/ Connect(s)
        \/ Receive(s, MaxSharedMsgs)
        \/ Disconnect(s)

SpecShared == Init /\ [][NextShared]_vars

TypeOK ==
    /\ chatbot.model \in BOOLEAN
    /\ nmsgs \in 0..MaxMsgs
    /\ last.resets \in {0, 1}
    /\ \A s \in Sessions : ws[s].conn \in {"none", "open", "closed"}

(***************************************************************************)
(* Vocabulary of the properties.  `last` describes the latest pass of the  *)
(* message loop and `chatbot` is the engine as that pass left it: no other *)
(* action touches either.                                                  *)
(***************************************************************************)
\* The latest pass called get_response.
Turn == Len(last.get_response) = 1

\* The argument and the returned string of that call.
TurnArg == last.get_response[1].arg
TurnRet == last.get_response[1].ret

\* The model was invoked during the latest pass and returned / raised.
ModelSucceeded == last.outcome # None /\ last.outcome[1].ok
ModelFailed == last.outcome # None /\ ~ last.outcome[1].ok

\* The transcript before the pass, with the system turn a first turn puts in front.
Opened(pre) ==
    IF pre.context.first_interaction
    THEN <<SystemMessage(system_prompt)>> \o pre.messages
    ELSE pre.messages

\* The turns the latest get_response call added after the opened transcript.
Gained ==
    SubSeq(chatbot.state.messages, Len(Opened(last.pre)) + 1,
           Len(chatbot.state.messages))

\* The latest call ended in the recommendation node.
RecommendationTurn ==
    /\ Turn
    /\ TurnRet = CommunityMessage
    /\ chatbot.state.messages[Len(chatbot.state.messages)] = AIMessage(CommunityMessage)
    /\ chatbot.state.community_info = Some(GRAND_VILLA_INFO)

(***************************************************************************)
(* C1.  Configured engine, user text without a router keyword, the model   *)
(* succeeds: the model is invoked exactly once, the transcript gains the   *)
(* user turn and exactly one assistant turn, the model's reply, which is   *)
(* also what get_response returns, whatever the reply says; from a fresh   *)
(* state the transcript is [system, user, reply].                          *)
(***************************************************************************)
C1_ModelReplyIsTheOnlyAssistantTurn ==
    (Turn /\ chatbot.model /\ ~ MentionsCommunity(TurnArg) /\ ModelSucceeded) =>
        /\ Len(last.invoked) = 1
        /\ Gained = << HumanMessage(TurnArg), AIMessage(last.outcome[1].content) >>
        /\ TurnRet = last.outcome[1].content
        /\ last.pre = InitialState =>
              chatbot.state.messages =
                 << SystemMessage(system_prompt), HumanMessage(TurnArg),
                    AIMessage(last.outcome[1].content) >>

(***************************************************************************)
(* C2.  Configured engine, user text with a router keyword: the call       *)
(* returns the fixed recommendation text and leaves the recommendation     *)
(* set, whatever the model would answer.                                   *)
(***************************************************************************)
C2_KeywordInUserTextRecommends ==
    (Turn /\ chatbot.model /\ MentionsCommunity(TurnArg)) =>
        /\ TurnRet = CommunityMessage
        /\ chatbot.state.community_info # None

(***************************************************************************)
(* C3.  A get_response call that ends in the recommendation branch did not *)
(* invoke the model at any point.                                          *)
(***************************************************************************)
C3_RecommendationWithoutModelCall ==
    RecommendationTurn => last.invoked = << >>

(***************************************************************************)
(* Vocabulary of the websocket properties.                                 *)
(***************************************************************************)
\* The latest pass handled a message tagged as a reset command.
ResetPass == last.session # "" /\ last.data.type = Str("reset")

\* The payload has a "content" string.
HasText(data) ==
    data.json = "object" /\ data.content # None /\ data.content[1].isstr

\* A payload that is no reset command and carries a "content" string.
WellFormedChat(data) == HasText(data) /\ data.type # Str("reset")

\* A payload that cannot be decoded, or decodes without a "content" string
\* (and is no reset command, which needs none).
Malformed(data) ==
    \/ data.json \in {"invalid", "nonobject"}
    \/ data.json = "object" /\ ~ HasText(data) /\ data.type # Str("reset")

(***************************************************************************)
(* C4.  After a reset command the engine is in the state of a new session: *)
(* empty transcript, first-turn flag set, no recommendation.               *)
(***************************************************************************)
C4_ResetYieldsFreshState ==
    ResetPass => chatbot.state = InitialState

\* A well-formed message that is no reset command: one get_response(content)
\* call, one reply carrying the returned string.
ChatDispatch ==
    (last.session # "" /\ WellFormedChat(last.data)) =>
        /\ Turn
        /\ TurnArg = last.data.content[1].val
        /\ last.sent = << Reply(TurnRet) >>
        /\ last.resets = 0

\* A reset command: the engine's reset ran, the acknowledgement is the one
\* message sent, get_response was not called.
ResetDispatch ==
    ResetPass =>
        /\ last.resets = 1
        /\ last.sent = << ResetConfirmed >>
        /\ last.get_response = << >>

(***************************************************************************)
(* C5.  A reset message calls the engine's reset, sends exactly the reset  *)
(* acknowledgement and does not call get_response; any other well-formed   *)
(* message calls get_response(content) exactly once and sends exactly one  *)
(* reply, the string that call returned.                                   *)
(***************************************************************************)
C5_GatewayDispatch == ResetDispatch /\ ChatDispatch

(***************************************************************************)
(* C6.  An engine built without a model credential answers every           *)
(* get_response call with the fixed unavailable-service string, never      *)
(* invokes the model, and never changes the recommendation.                *)
(***************************************************************************)
C6_UnconfiguredShortCircuits ==
    ~ chatbot.model =>
        /\ last.invoked = << >>
        /\ chatbot.state.community_info = None
        /\ chatbot.state.community_info = last.pre.community_info
        /\ Turn => TurnRet = NO_API_KEY_REPLY

\* An unconfigured engine has answered a call that followed an earlier call.
C6_Witness ==
    /\ ~ chatbot.model
    /\ Turn
    /\ TurnRet = NO_API_KEY_REPLY
    /\ ws["ws1"].received >= 2

(***************************************************************************)
(* C7.  When the model fails during a turn, get_response returns the fixed *)
(* apology and the transcript gains, after the user turn, exactly one      *)
(* assistant turn, carrying that apology.  In every turn in which the      *)
(* model is invoked exactly one of the real reply and the apology is       *)
(* appended.                                                               *)
(***************************************************************************)
C7_FailureAppendsOneApology ==
    /\ (Turn /\ ModelFailed) =>
          /\ TurnRet = CHAT_ERROR_REPLY
          /\ last.sent = << Reply(CHAT_ERROR_REPLY) >>
          /\ Gained = << HumanMessage(TurnArg), AIMessage(CHAT_ERROR_REPLY) >>
    /\ (Turn /\ chatbot.model) =>
          /\ Len(last.invoked) = 1
          /\ Len(Gained) >= 2
          /\ Gained[1] = HumanMessage(TurnArg)
          /\ Gained[2] = IF last.outcome[1].ok
                         THEN AIMessage(last.outcome[1].content)
                         ELSE AIMessage(CHAT_ERROR_REPLY)
          /\ Cardinality({ i \in 1..Len(Gained) :
                             \/ Gained[i] = AIMessage(CHAT_ERROR_REPLY)
                             \/ /\ last.outcome[1].ok
                                /\ Gained[i] = AIMessage(last.outcome[1].content) }) = 1

\* The model failed on a turn that was not the first of the transcript.
C7_Witness ==
    /\ Turn
    /\ ModelFailed
    /\ last.pre.messages # << >>
    /\ TurnRet = CHAT_ERROR_REPLY

(***************************************************************************)
(* C8.  Conversation state is per session: a session that has not yet sent *)
(* anything is answered from a fresh state, and a message handled for one  *)
(* session leaves the state that answers another open session unchanged.   *)
(***************************************************************************)
C8_SessionsDoNotShareState ==
    /\ \A s \in Sessions :
          (ws[s].conn = "open" /\ ws[s].received = 0) =>
              chatbot.state = InitialState
    /\ \A s \in Sessions :
          (ws[s].conn = "open" /\ last.session \notin {"", s}) =>
              chatbot.state = last.pre

(***************************************************************************)
(* C9.  Every malformed payload, undecodable or decoded without a          *)
(* "content" string, is answered with the one fixed invalid-message reply  *)
(* and get_response is not called for it.                                  *)
(***************************************************************************)
C9_MalformedGetsInvalidReply ==
    (last.session # "" /\ Malformed(last.data)) =>
        /\ last.sent = << Reply(INVALID_FORMAT_REPLY) >>
        /\ last.get_response = << >>

(***************************************************************************)
(* C10.  No inbound payload and no failure while handling it ends the      *)
(* message loop: after every pass the session is still open and the        *)
(* message was answered.                                                   *)
(***************************************************************************)
C10_OnlyDisconnectEndsLoop ==
    last.session # "" =>
        /\ ~ last.broke
        /\ Len(last.sent) = 1

(***************************************************************************)
(* Vocabulary of the persistence property.                                 *)
(***************************************************************************)
\* The engine as it was before the latest pass.
PreChatbot == [model |-> chatbot.model, state |-> last.pre]

\* What get_response alone makes of the latest pass's text on that engine.
PureAnswer ==
    GetResponse(PreChatbot, last.data.content[1].val,
                IF last.outcome # None THEN last.outcome[1]
                ELSE [ok |-> FALSE, content |-> ""])

\* A connection whose database handle could not be obtained (app.py:187-189).
NoDatabase == [conn |-> "open", current_user |-> None, db |-> FALSE, received |-> 0]

(***************************************************************************)
(* C11.  Persistence never affects a chat turn: for a message that is no   *)
(* reset command and carries a text, whether the save of the user row and  *)
(* of the bot row succeed or raise, or the connection has no database      *)
(* handle, get_response is called exactly once and the one reply sent is   *)
(* the string it returned, the same string and engine state get_response   *)
(* alone produces.                                                         *)
(***************************************************************************)
C11_PersistenceNeverAffectsTurn ==
    /\ (last.session # "" /\ WellFormedChat(last.data)) =>
          /\ Turn
          /\ TurnArg = last.data.content[1].val
          /\ last.sent = << Reply(TurnRet) >>
          /\ TurnRet = PureAnswer.ret
          /\ chatbot = PureAnswer.chatbot
          /\ ~ last.broke
    /\ \A data \in ChatMessages, outcome \in ModelOutcomes :
          \E p \in {LoopBody(chatbot, NoDatabase, data, outcome, FALSE, FALSE)},
             r \in {GetResponse(chatbot, data.content[1].val, outcome)} :
               /\ p.get_response = << [arg |-> data.content[1].val, ret |-> r.ret] >>
               /\ p.sent = << Reply(r.ret) >>
               /\ p.chatbot = r.chatbot
               /\ p.saves = << >>
               /\ ~ p.broke

\* Both saves of a turn of a configured engine raised and the reply went out.
C11_Witness ==
    /\ Turn
    /\ chatbot.model
    /\ Len(last.saves) = 2
    /\ ~ last.saves[1].stored
    /\ ~ last.saves[2].stored
    /\ last.sent = << Reply(TurnRet) >>
    /\ last.pre.messages # << >>

(***************************************************************************)
(* Vocabulary of the routing properties.                                   *)
(***************************************************************************)
\* The engine state with the latest call's user turn appended and no
\* assistant reply yet.
AfterUserTurn ==
    [last.pre EXCEPT !.messages = Opened(last.pre) \o << HumanMessage(TurnArg) >>]

\* The engine state once the model's reply of the latest call is appended.
AfterModelReply ==
    [last.pre EXCEPT !.messages = Opened(last.pre) \o
        << HumanMessage(TurnArg), AIMessage(last.outcome[1].content) >>]

(***************************************************************************)
(* C12.  The routing decision of a call is the router's verdict on the     *)
(* transcript right after the new user turn is appended, before any        *)
(* assistant reply exists; on an empty transcript and on a transcript      *)
(* whose last turn is an assistant turn the router says CONTINUE, so a     *)
(* keyword in a model reply never leads to the recommendation branch.      *)
(***************************************************************************)
C12_RoutingReadsUserTurnOnly ==
    /\ ShouldRecommendCommunity(InitialState) = "continue_chat"
    /\ (Turn /\ chatbot.model) =>
          /\ RecommendationTurn <=>
                ShouldRecommendCommunity(AfterUserTurn) = "recommend"
          /\ ModelSucceeded =>
                ShouldRecommendCommunity(AfterModelReply) = "continue_chat"

(***************************************************************************)
(* The router on its own: _should_recommend_community applied to chat      *)
(* states built turn by turn, whatever workflow they came from.            *)
(***************************************************************************)
MaxProbeLen == 2

ProbeTurns ==
    {HumanMessage(t) : t \in ProbeTexts}
        \cup {AIMessage(t) : t \in ModelReplies}
        \cup {SystemMessage(system_prompt)}

\* No connection, no message loop.
ChatIdle ==
    /\ chatbot = NewChatbot(TRUE)
    /\ ws = [s \in Sessions |->
                [conn |-> "none", current_user |-> None, db |-> FALSE, received |-> 0]]
    /\ last = NoPass
    /\ nmsgs = 0

InitRouter ==
    /\ ChatIdle
    /\ AuthIdle
    /\ \E first_interaction \in BOOLEAN, community_info \in {None, Some(GRAND_VILLA_INFO)} :
         probe = [InitialState EXCEPT !.context.first_interaction = first_interaction,
                                      !.community_info = community_info]
    /\ verdict = None

\* A turn is added to the state the router will be given.
AppendTurn ==
    /\ Len(probe.messages) < MaxProbeLen
    /\ \E m \in ProbeTurns :
         probe' = [probe EXCEPT !.messages = Append(@, m)]
    /\ verdict' = None
    /\ UNCHANGED <<chatVars, authVars>>

\* self._should_recommend_community(state): the function reads `state` and
\* returns a literal; it assigns nothing.
Route ==
    /\ verdict = None
    /\ verdict' = Some(ShouldRecommendCommunity(probe))
    /\ probe' = probe
    /\ UNCHANGED <<chatVars, authVars>>

NextRouter == AppendTurn \/ Route

SpecRouter == InitRouter /\ [][NextRouter]_vars

\* The two characters are the same letter in either case, or the same character.
SameLetter(a, b) ==
    \/ a = b
    \/ \E n \in 1..Len(UpperLetters) :
         {a, b} = {SubSeq(UpperLetters, n, n), SubSeq(LowerLetters, n, n)}

\* `t` holds `k` as a contiguous piece, letter case ignored.
HoldsIgnoringCase(t, k) ==
    \E i \in 1..(Len(t) - Len(k) + 1) :
        \A j \in 1..Len(k) :
            SameLetter(SubSeq(t, i + j - 1, i + j - 1), SubSeq(k, j, j))

\* For each probe text, whether it holds one of the six keywords.
HoldsKeyword ==
    [t \in ProbeTexts |->
        \E k \in {"community", "communities", "place", "facility", "location", "where"} :
            HoldsIgnoringCase(t, k)]

\* The router has run on a state whose last turn is a user turn.
RoutedUserTurn ==
    /\ verdict # None
    /\ probe.messages # << >>
    /\ probe.messages[Len(probe.messages)].type = "human"

ProbeText == probe.messages[Len(probe.messages)].content

(***************************************************************************)
(* C13.  On a state whose last turn is a user turn with text t the router  *)
(* returns RECOMMEND exactly when t, letter case ignored, holds one of     *)
(* community, communities, place, facility, location, where; "Where is it  *)
(* located?" and "WHERE" give RECOMMEND, "I like the colors" and the empty *)
(* text give CONTINUE.                                                     *)
(***************************************************************************)
C13_RouterKeywordMatch ==
    RoutedUserTurn =>
        /\ verdict \in {Some("recommend"), Some("continue_chat")}
        /\ verdict = Some("recommend") <=> HoldsKeyword[ProbeText]
        /\ ProbeText \in {"Where is it located?", "WHERE"} => verdict = Some("recommend")
        /\ ProbeText \in {"I like the colors", ""} => verdict = Some("continue_chat")

\* The router said RECOMMEND for the upper-case text after an earlier turn.
C13_Witness ==
    /\ RoutedUserTurn
    /\ ProbeText = "WHERE"
    /\ Len(probe.messages) = 2
    /\ verdict = Some("recommend")

(***************************************************************************)
(* Vocabulary of the transcript properties.                                *)
(***************************************************************************)
\* The positions of the system turns of a transcript.
SystemTurns(messages) == {i \in 1..Len(messages) : messages[i].type = "system"}

FirstInteraction(state) == state.context.first_interaction

(***************************************************************************)
(* C14.  After any sequence of get_response calls the transcript holds the *)
(* system instruction turn at most once, and in first place if at all; the *)
(* first-turn flag is false exactly when that turn is in the transcript,   *)
(* it is cleared by the first call that reaches the model and, once false, *)
(* it never becomes true again.                                            *)
(***************************************************************************)
C14_SystemTurnOnceAndFirst ==
    /\ SystemTurns(chatbot.state.messages) \subseteq {1}
    /\ \A i \in SystemTurns(chatbot.state.messages) :
          chatbot.state.messages[i] = SystemMessage(system_prompt)
    /\ ~ FirstInteraction(chatbot.state) <=> SystemTurns(chatbot.state.messages) = {1}
    /\ ~ FirstInteraction(last.pre) => ~ FirstInteraction(chatbot.state)
    /\ last.invoked # << >> => ~ FirstInteraction(chatbot.state)

\* A later call on a configured engine: the flag was already false before it
\* and the transcript still starts with its one system turn.
C14_Witness ==
    /\ Turn
    /\ chatbot.model
    /\ ModelSucceeded
    /\ ~ FirstInteraction(last.pre)
    /\ SystemTurns(chatbot.state.messages) = {1}
    /\ Len(chatbot.state.messages) >= 5

\* `old` is the beginning of `new`.
IsPrefix(old, new) ==
    /\ Len(old) <= Len(new)
    /\ SubSeq(new, 1, Len(old)) = old

(***************************************************************************)
(* C15.  Across get_response calls the transcript never gets shorter: the  *)
(* turns it held before a pass are still there after it, with the same     *)
(* role, text and order, and every new turn comes after them; the one      *)
(* exception is the system turn, put in front by the first call that       *)
(* reaches the model.  A pass without get_response call leaves it as is.   *)
(***************************************************************************)
C15_TranscriptAppendOnly ==
    /\ Len(chatbot.state.messages) >= Len(last.pre.messages)
    /\ \/ IsPrefix(last.pre.messages, chatbot.state.messages)
       \/ /\ FirstInteraction(last.pre)
          /\ ~ FirstInteraction(chatbot.state)
          /\ IsPrefix(<<SystemMessage(system_prompt)>> \o last.pre.messages,
                      chatbot.state.messages)
    /\ ~ Turn => chatbot.state.messages = last.pre.messages
    /\ \A i \in 1..Len(Gained) : Gained[i].type \in {"human", "ai"}

\* A call on a transcript that already holds turns, the model failing: the
\* transcript grew behind the turns it had.
C15_Witness ==
    /\ Turn
    /\ ModelFailed
    /\ Len(last.pre.messages) >= 3
    /\ IsPrefix(last.pre.messages, chatbot.state.messages)
    /\ Len(chatbot.state.messages) > Len(last.pre.messages)

(***************************************************************************)
(* Vocabulary of the recommendation properties.                            *)
(***************************************************************************)
\* The recommendation is absent or the fixed payload, it is present only
\* once a turn of the transcript is the recommendation text, and a pass that
\* changed it ended in the recommendation node.
RecommendationIsPayload ==
    /\ chatbot.state.community_info \in {None, Some(GRAND_VILLA_INFO)}
    /\ chatbot.state.community_info # None =>
          \E i \in 1..Len(chatbot.state.messages) :
              chatbot.state.messages[i] = AIMessage(CommunityMessage)
    /\ chatbot.state.community_info # last.pre.community_info => RecommendationTurn

(***************************************************************************)
(* C16.  The recommendation is always absent or the fixed payload, never   *)
(* anything taken from user text, and present only after a turn that took  *)
(* the recommendation branch; a turn on the CONTINUE branch, the router     *)
(* finding no keyword in the user turn, leaves it as it was, whether the   *)
(* model answers or fails.                                                 *)
(***************************************************************************)
C16_RecommendationOnlyFromBranch ==
    /\ RecommendationIsPayload
    /\ (Turn /\ ShouldRecommendCommunity(AfterUserTurn) = "continue_chat") =>
          chatbot.state.community_info = last.pre.community_info

\* Chat states that end in the same turn as `state` (or are empty like it)
\* and differ in the turns before it, the first-turn flag and the
\* recommendation.
SameLastTurn(state) ==
    { [ messages |-> IF state.messages = << >> THEN << >>
                     ELSE before \o << state.messages[Len(state.messages)] >>,
        next |-> None,
        context |-> [first_interaction |-> first_interaction],
        community_info |-> community_info ] :
      before \in { << >>, << HumanMessage("WHERE") >>,
                   << SystemMessage(system_prompt), HumanMessage("I like the colors"),
                      AIMessage("Do you have any location preferences?") >> },
      first_interaction \in BOOLEAN,
      community_info \in {None, Some(GRAND_VILLA_INFO)} }

(***************************************************************************)
(* C17.  The router is pure and deterministic: a step that evaluates it    *)
(* leaves the transcript, the first-turn flag and the recommendation of    *)
(* the state it was given as they were, and the branch it returns is the   *)
(* branch it returns for every state with the same last turn, whatever the *)
(* earlier turns, the flag and the recommendation are.                     *)
(***************************************************************************)
C17_RouterPureAndDeterministic ==
    [][ (verdict = None /\ verdict' # None) =>
           /\ probe' = probe
           /\ \A other \in SameLastTurn(probe) :
                 verdict' = Some(ShouldRecommendCommunity(other)) ]_vars

\* The router said CONTINUE for a text without keyword that follows a user
\* turn with a keyword.
C17_Witness ==
    /\ verdict = Some("continue_chat")
    /\ probe.messages = << HumanMessage("WHERE"), HumanMessage("I like the colors") >>
    /\ probe.community_info # None

(***************************************************************************)
(* Accounts: services/database.py, services/auth.py and the /auth          *)
(* endpoints of app.py.  A request handler is `async def` and awaits       *)
(* nothing, so it runs to its response before the next request starts.     *)
(***************************************************************************)
MaxCodes == 2
MaxTime == 1

\* expires_at = utcnow() + 15 minutes; `now` counts in that unit.
CodeLifetime == 1

Emails == {"ann@example.com", "bob@example.com"}
RegisterPasswords == {"secret"}
LoginPasswords == {"secret", "guess"}

\* f"{secrets.randbelow(900000) + 100000:06d}": two of the 900000 values.
CodeValues == {"100000", "100001"}

\* What id_token.verify_oauth2_token returns for the tokens a client sends:
\* the claims of a Google account, or nothing for a token it rejects.
GoogleTokens == { Some([sub |-> "g-ann", email |-> "ann@example.com"]), None }

\* How send_verification_email ends once the credentials are configured.
MailOutcomes == {"sent", "code_error", "smtp_error"}

\* The primary keys gen_random_uuid() hands out: a row's number.
AccountIds == 1..Cardinality(Emails)

\* pwd_context.hash(password): a value that is not the password.
Hash(password) == << "bcrypt", password >>

\* Database.verify_password
VerifyPassword(plain_password, hashed_password) ==
    hashed_password = Hash(plain_password)

\* Database.get_user_by_email: the row number, 0 for None.
GetUserByEmail(us, email) ==
    IF \E i \in 1..Len(us) : us[i].email = email
    THEN CHOOSE i \in 1..Len(us) : us[i].email = email
    ELSE 0

\* Database.get_user_by_google_id
GetUserByGoogleId(us, google_id) ==
    IF \E i \in 1..Len(us) : us[i].google_id = Some(google_id)
    THEN CHOOSE i \in 1..Len(us) : us[i].google_id = Some(google_id)
    ELSE 0

\* Database.create_user: `password` and `google_id` are None or Some(value).
CreateUser(us, email, password, google_id) ==
    Append(us, [ id |-> Len(us) + 1,
                 email |-> email,
                 hashed_password |->
                     IF password # None /\ password[1] # ""
                     THEN Some(Hash(password[1])) ELSE None,
                 is_verified |-> google_id # None,
                 google_id |-> google_id ])

\* Database.update_user_verification
UpdateUserVerification(us, user_id, is_verified) ==
    [i \in 1..Len(us) |->
        IF us[i].id = user_id THEN [us[i] EXCEPT !.is_verified = is_verified]
        ELSE us[i]]

\* Database.create_verification_code
CreateVerificationCode(cs, user_id, verification_code, utcnow) ==
    Append(cs, [ user_id |-> user_id,
                 verification_code |-> verification_code,
                 expires_at |-> utcnow + CodeLifetime,
                 is_used |-> FALSE ])

\* The query of verify_code without the is_used filter.
MatchingCodesAnyUse(cs, user_id, code, utcnow) ==
    { i \in 1..Len(cs) :
        /\ cs[i].user_id = user_id
        /\ cs[i].verification_code = code
        /\ cs[i].expires_at > utcnow }

\* The query of Database.verify_code: the rows .first() may return.
MatchingCodes(cs, user_id, code, utcnow) ==
    { i \in 1..Len(cs) :
        /\ cs[i].user_id = user_id
        /\ cs[i].verification_code = code
        /\ cs[i].expires_at > utcnow
        /\ cs[i].is_used = FALSE }

\* authenticate_user without the test of the stored hash being there.
AuthenticateUserAnyHash(us, email, password) ==
    LET user == GetUserByEmail(us, email) IN
    IF user = 0 THEN 0
    ELSE IF us[user].hashed_password # None
            /\ ~ VerifyPassword(password, us[user].hashed_password[1]) THEN 0
    ELSE user

\* AuthService.authenticate_user: the row number, 0 for False.
AuthenticateUser(us, email, password) ==
    LET user == GetUserByEmail(us, email) IN
    IF user = 0 THEN 0
    ELSE IF us[user].hashed_password = None THEN 0
    ELSE IF ~ VerifyPassword(password, us[user].hashed_password[1]) THEN 0
    ELSE user

\* AuthService.create_access_token(data={"sub": user.id})
CreateAccessToken(user_id) == Some([sub |-> user_id])

\* The /auth/login handler with the stored rows `us`.
LoginResponse(us, email, password) ==
    LET user == AuthenticateUser(us, email, password) IN
    IF user = 0 THEN [status |-> 401, token |-> None]
    ELSE IF ~ us[user].is_verified THEN [status |-> 401, token |-> None]
    ELSE [status |-> 200, token |-> CreateAccessToken(us[user].id)]

\* What is kept of a request: `at` is the time of a verify-email request.
Request(op, email, password, user_id, code, status, token, row) ==
    [ op |-> op, email |-> email, password |-> password, user_id |-> user_id,
      code |-> code, status |-> status, token |-> token, row |-> row,
      at |-> IF op = "verify" THEN now ELSE 0 ]

\* AuthService.send_verification_email from a handler that has the tables
\* `us`: the tables it leaves and whether it raised.
SendVerificationEmail(us, user_id, verification_code, outcome) ==
    IF ~ email_configured
    THEN [codes |-> codes, raised |-> FALSE]
    ELSE IF outcome = "code_error"
    THEN [codes |-> codes, raised |-> TRUE]
    ELSE [ codes |-> CreateVerificationCode(codes, user_id, verification_code, now),
           raised |-> outcome = "smtp_error" ]

\* The rows of `accepted` for a table of `n` codes.
Counted(n) == [i \in 1..n |-> IF i <= Len(accepted) THEN accepted[i] ELSE 0]

\* POST /auth/register
Register ==
    \E email \in Emails :
      IF GetUserByEmail(users, email) # 0
      THEN /\ authReq' = Request("register", email, "", 0, "", 400, None, 0)
           /\ UNCHANGED <<email_configured, users, codes, now, accepted>>
      ELSE /\ email_configured => Len(codes) < MaxCodes
           /\ \E password \in RegisterPasswords :
                users' = CreateUser(users, email, Some(password), None)
           /\ \E verification_code \in CodeValues, outcome \in MailOutcomes :
              \E sent \in {SendVerificationEmail(users', Len(users'), verification_code, outcome)} :
                /\ codes' = sent.codes
                /\ accepted' = Counted(Len(sent.codes))
                /\ authReq' = Request("register", email, "", 0, "",
                                      IF sent.raised THEN 500 ELSE 200, None, 0)
           /\ UNCHANGED <<email_configured, now>>

\* POST /auth/login
Login ==
    \E email \in Emails, password \in LoginPasswords :
      \E r \in {LoginResponse(users, email, password)} :
        /\ authReq' = Request("login", email, password, 0, "", r.status, r.token, 0)
        /\ UNCHANGED <<email_configured, users, codes, now, accepted>>

\* AuthService.verify_google_token with the claims of a token Google accepted:
\* the table afterwards and the row of the user.
VerifyGoogleToken(us, idinfo) ==
    LET by_google == GetUserByGoogleId(us, idinfo.sub)
        by_email == GetUserByEmail(us, idinfo.email)
    IN  IF by_google # 0 THEN [users |-> us, user |-> by_google]
        ELSE IF by_email # 0
        THEN [ users |-> [us EXCEPT ![by_email].google_id = Some(idinfo.sub),
                                    ![by_email].is_verified = TRUE],
               user |-> by_email ]
        ELSE [ users |-> CreateUser(us, idinfo.email, None, Some(idinfo.sub)),
               user |-> Len(us) + 1 ]

\* POST /auth/google
GoogleAuth ==
    \E token \in GoogleTokens :
      IF token = None
      THEN /\ authReq' = Request("google", "", "", 0, "", 400, None, 0)
           /\ UNCHANGED <<email_configured, users, codes, now, accepted>>
      ELSE \E r \in {VerifyGoogleToken(users, token[1])} :
             /\ users' = r.users
             /\ authReq' = Request("google", token[1].email, "", 0, "", 200,
                                   CreateAccessToken(r.users[r.user].id), 0)
             /\ UNCHANGED <<email_configured, codes, now, accepted>>

\* POST /auth/verify-email: verify_email_code, that is verify_code and, when
\* it found a row, update_user_verification.
VerifyEmail ==
    \E user_id \in AccountIds, code \in CodeValues :
      IF MatchingCodes(codes, user_id, code, now) = {}
      THEN /\ authReq' = Request("verify", "", "", user_id, code, 500, None, 0)
           /\ UNCHANGED <<email_configured, users, codes, now, accepted>>
      ELSE \E verification \in MatchingCodes(codes, user_id, code, now) :
             /\ codes' = [codes EXCEPT ![verification].is_used = TRUE]
             /\ accepted' = [accepted EXCEPT ![verification] = @ + 1]
             /\ users' = UpdateUserVerification(users, user_id, TRUE)
             /\ authReq' = Request("verify", "", "", user_id, code, 200, None, verification)
             /\ UNCHANGED <<email_configured, now>>

\* POST /auth/resend-verification
ResendVerification ==
    \E email \in Emails : \E user \in {GetUserByEmail(users, email)} :
      IF user = 0 \/ users[user].is_verified
      THEN /\ authReq' = Request("resend", email, "", 0, "", 400, None, 0)
           /\ UNCHANGED <<email_configured, users, codes, now, accepted>>
      ELSE /\ email_configured => Len(codes) < MaxCodes
           /\ \E verification_code \in CodeValues, outcome \in MailOutcomes :
              \E sent \in {SendVerificationEmail(users, users[user].id, verification_code, outcome)} :
                /\ codes' = sent.codes
                /\ accepted' = Counted(Len(sent.codes))
                /\ authReq' = Request("resend", email, "", 0, "",
                                      IF sent.raised THEN 500 ELSE 200, None, 0)
           /\ UNCHANGED <<email_configured, users, now>>

\* A code lifetime passes.
Tick ==
    /\ now < MaxTime
    /\ now' = now + 1
    /\ UNCHANGED <<email_configured, users, codes, accepted, authReq>>

InitAuth ==
    /\ ChatIdle
    /\ RouterIdle
    /\ email_configured \in BOOLEAN
    /\ users = << >>
    /\ codes = << >>
    /\ now = 0
    /\ accepted = << >>
    /\ authReq = NoRequest

NextAuth ==
    \/ (Register /\ UNCHANGED <<chatVars, routerVars>>)
    \/ (Login /\ UNCHANGED <<chatVars, routerVars>>)
    \/ (GoogleAuth /\ UNCHANGED <<chatVars, routerVars>>)
    \/ (VerifyEmail /\ UNCHANGED <<chatVars, routerVars>>)
    \/ (ResendVerification /\ UNCHANGED <<chatVars, routerVars>>)
    \/ (Tick /\ UNCHANGED <<chatVars, routerVars>>)

SpecAuth == InitAuth /\ [][NextAuth]_vars

AuthTypeOK ==
    /\ Len(users) <= Cardinality(Emails)
    /\ Len(codes) <= MaxCodes
    /\ Len(accepted) = Len(codes)
    /\ now \in 0..MaxTime

(***************************************************************************)
(* Vocabulary of the account properties.  `authReq` describes the latest   *)
(* /auth request; the tables are as that request, and the time passed      *)
(* since, left them.                                                       *)
(***************************************************************************)
LoginGranted == authReq.op = "login" /\ authReq.token # None

\* The rows of `users` with the given email.
WithEmail(email) == {i \in 1..Len(users) : users[i].email = email}

(***************************************************************************)
(* C18.  Whatever register, verify-email, resend-verification, Google      *)
(* sign-in and login requests came before, a login request gets an access  *)
(* token only if a user with its email is stored, that user has a password *)
(* hash, the hash is the hash of the submitted password, and the user is   *)
(* verified; the token names that user.  A user without password hash, as  *)
(* Google sign-in creates it, never gets a token from a login request.     *)
(***************************************************************************)
C18_LoginNeedsHashAndVerification ==
    /\ LoginGranted =>
          /\ authReq.status = 200
          /\ \E i \in WithEmail(authReq.email) :
                /\ users[i].hashed_password # None
                /\ users[i].hashed_password = Some(Hash(authReq.password))
                /\ users[i].is_verified
                /\ authReq.token = Some([sub |-> users[i].id])
    /\ (authReq.op = "login" /\ ~ LoginGranted) => authReq.status = 401
    /\ \A i \in 1..Len(users) :
          users[i].hashed_password = None =>
              ~ (LoginGranted /\ authReq.email = users[i].email)
    /\ \A i, j \in 1..Len(users) : users[i].email = users[j].email => i = j

\* A login with the right password got a token for a user verified by code,
\* while a user made by Google sign-in, without password hash, is stored.
C18_Witness ==
    /\ LoginGranted
    /\ \E i \in WithEmail(authReq.email) :
          users[i].google_id = None /\ users[i].is_verified
    /\ \E j \in 1..Len(users) :
          users[j].hashed_password = None /\ users[j].google_id # None

C20_FailedRegistrationStoresNothing ==
    (authReq.op = "register" /\ authReq.status = 500) =>
        WithEmail(authReq.email) = {}

=============================================================================
